---- MODULE Spec2Model ----
(***************************************************************************)
(* Model of crawler/crawler/crawler.go: the crawl-and-publish pipeline of  *)
(* the second (current) Crawler definition of the file (lines 393-747):    *)
(* CrawlRepo, CrawlPublishers, removeBlackListedFromRepositories, crawl,   *)
(* CrawlPublisher, CrawlOrg, ProcessRepositories and ProcessRepo.          *)
(*                                                                         *)
(* Goroutines are processes with a program counter; channels are records   *)
(* with a buffer and a closed flag; the unbuffered work channel is a       *)
(* rendezvous between the feeding loop of crawl() and one pool worker.     *)
(* A panic ends the program: no goroutine takes a step once panicked.      *)
(* Collaborators that are not part of the file (KnownHost, generateAPIURLs,*)
(* processAndGetNextURL, processSingleRepo, httpclient.GetURL, the parser, *)
(* CloneRepository, CalculateRepoActivity, saveToES, elastic.Flush,        *)
(* elastic.AliasUpdate) return, and each of their results is a             *)
(* nondeterministic choice.                                                *)
(***************************************************************************)
EXTENDS Integers, Sequences, FiniteSets, TLC

(* ---- bounds of the model ---------------------------------------------- *)

\* Capacity of the buffered channels.  The source makes both c.repositories
\* (line 463) and temp (line 531) with capacity 1000; the model scales the
\* capacity down so that "more candidates than the capacity" is reachable.
ChanCap == 3

\* Number of pool workers.  The source starts 5 (line 557); the model scales
\* the pool down so that "more candidates than workers" is reachable.
PoolSize == 2

\* Largest number of candidates pushed on the intake channel in one run.
MaxCandidates == 4

\* Largest number of publishers handed to CrawlPublishers.
MaxPublishers == 2

\* Largest number of seed URLs generateAPIURLs returns for one organization.
MaxSeeds == 2

\* Largest number of pages in the listing of one seed URL.
MaxPages == 2

\* Largest length of an administration code (codiceIPA) given to
\* validateFile.
MaxCodeLen == 3

\* Largest number of crawls (calls of CrawlRepo or CrawlPublishers) on one
\* Crawler.
MaxCrawls == 2

(* ---- data ------------------------------------------------------------- *)

\* Clone URLs a candidate can carry.
CloneURLs == {"u1", "u2"}

\* GetAllBlackListedRepos(): clone URL -> external id of the published
\* document.  "u0" is an entry that no candidate carries.
listedRepos == [u \in {"u0", "u1"} |-> IF u = "u1" THEN "doc-42" ELSE "doc-7"]

\* The publishers of the whitelist.
\* Strings that are compared character by character are sequences of
\* one-character strings.
PAs ==
  { [Name |-> "pa1", Organizations |-> <<"org1">>, Repositories |-> <<"repo1">>,
     UnknownIPA |-> FALSE, CodiceIPA |-> <<"A", "b", " ">>],
    [Name |-> "pa2", Organizations |-> <<>>, Repositories |-> <<"repo2">>,
     UnknownIPA |-> TRUE, CodiceIPA |-> <<>>] }

NoPA == [Name |-> "", Organizations |-> <<>>, Repositories |-> <<>>,
         UnknownIPA |-> FALSE, CodiceIPA |-> <<>>]

\* A Repository value (the fields the pipeline's control flow reads) with the
\* identity of the push that created it.
\* The direct URL of the manifest of the repository cloned from u.
FileRawURL(u) ==
  CASE u = "u1" -> "raw1" [] u = "u2" -> "raw2" [] OTHER -> ""

NoRepo == [id |-> 0, GitCloneURL |-> "", FileRawURL |-> "", Pa |-> NoPA]

SeqsUpTo(S, n) == UNION { [1..k -> S] : k \in 0..n }

\* make(chan Repository, n)
NewChan == [buf |-> <<>>, closed |-> FALSE]

VARIABLES
  mode,            \* which entry point is running: "repo" or "publishers"
  publishers,      \* the argument of CrawlPublishers
  repoPa,          \* the pa argument of CrawlRepo
  mainpc,          \* position of the calling goroutine
  repo,            \* loop variable of the range loop the caller is in
  repositories,    \* c.repositories
  temp,            \* temp of removeBlackListedFromRepositories
  reposChanClosed, \* reposChan of crawl() has been closed
  publishersWg,    \* c.publishersWg counter
  repositoriesWg,  \* c.repositoriesWg counter
  pub,             \* the CrawlPublisher goroutines
  closerpc,        \* the anonymous goroutine of CrawlPublishers
  worker,          \* the ProcessRepositories goroutines
  toBeRemoved,     \* result of removeBlackListedFromRepositories
  pushed,          \* history: every candidate sent on the intake channel
  intakeCloses,    \* history: number of close() calls on the intake channel
  trace,           \* history: per candidate, what the pool did with it
  esCalls,         \* history: calls on the index client, in order
  ret,             \* the error the entry point returns: "none" not yet
                   \* decided, "nil", or the error
  panicked,        \* a goroutine panicked (send on / close of closed channel)
  badYaml,         \* the dead-letter log: the URLs logBadYamlToFile wrote
  index,           \* the documents staged in the index, by key
  validation,      \* a call of validateFile: its arguments and its result
  returns,         \* the errors the earlier crawls on this instance returned
  wg,              \* counter of c.wg, the wait-group of the first version
  waitingLoop      \* the WaitingLoop goroutine of the first version: "none"
                   \* not started, "wait" started and not past c.wg.Wait(),
                   \* "done" returned

vars == <<mode, publishers, repoPa, mainpc, repo, repositories, temp,
          reposChanClosed, publishersWg, repositoriesWg, pub, closerpc,
          worker, toBeRemoved, pushed, intakeCloses, trace, esCalls, ret,
          panicked, badYaml, index, validation, returns, wg, waitingLoop>>

\* State of one CrawlPublisher goroutine.
\*   pc     "none" not started, "org" at the head of the organizations loop,
\*          "page" inside processAndGetNextURL of CrawlOrg, "repo" at the
\*          head of the repositories loop, "single" inside processSingleRepo,
\*          "done" returned
\*   pa     its argument
\*   org, rep   index of the current organization / repository URL
\*   seeds  number of seed URLs generateAPIURLs returned
\*   seed   index of the current seed URL
\*   page   number of the page of the current seed being processed
\*   ended  history: how the pagination of each seed of the current
\*          organization ended so far, "err" or "last", in seed order
\*   reqs   history: the pages of the current seed processAndGetNextURL was
\*          called on, in call order
\* seeds, seed, ended and reqs describe the last call of CrawlOrg until the
\* organizations loop is left.
IdlePub == [pc |-> "none", pa |-> NoPA, org |-> 0, rep |-> 0, seeds |-> 0,
            seed |-> 0, page |-> 0, ended |-> <<>>, reqs |-> <<>>]

IdleWorker == [pc |-> "none", repository |-> NoRepo]

\* The crawler after NewCrawler, and the call that is made on it.
InitCrawler ==
  /\ mode \in {"repo", "publishers"}
  /\ publishers \in SeqsUpTo(PAs, MaxPublishers)
  /\ repoPa \in PAs
  /\ (mode = "repo" => publishers = <<>>)
  /\ (mode = "publishers" => repoPa = CHOOSE p \in PAs : p.Name = "pa1")
  /\ mainpc = IF mode = "repo" THEN "CrawlRepo" ELSE "CrawlPublishers"
  /\ repo = NoRepo
  /\ repositories = NewChan
  /\ temp = NewChan
  /\ reposChanClosed = FALSE
  /\ publishersWg = 0
  /\ repositoriesWg = 0
  /\ pub = [i \in 1..MaxPublishers |-> IdlePub]
  /\ closerpc = "none"
  /\ worker = [w \in 1..PoolSize |-> IdleWorker]
  /\ toBeRemoved = <<>>
  /\ pushed = <<>>
  /\ intakeCloses = 0
  /\ trace = [i \in 1..MaxCandidates |-> <<>>]
  /\ esCalls = <<>>
  /\ ret = "none"
  /\ panicked = FALSE
  /\ badYaml = {}
  /\ index = {}
  /\ returns = <<>>
  /\ wg = 0
  /\ waitingLoop = "none"

\* No call of validateFile is under study.
NoValidation == [pc |-> "none", pa |-> NoPA, parser |-> [CodiceIPA |-> <<>>],
                 err |-> <<>>]

Init ==
  /\ InitCrawler
  /\ validation = NoValidation

(* ---- channels --------------------------------------------------------- *)

\* ch <- r on a buffered channel of capacity ChanCap that is not closed
HasRoom(ch) == Len(ch.buf) < ChanCap

Send(ch, r) == [ch EXCEPT !.buf = Append(@, r)]

Recv(ch) == [ch EXCEPT !.buf = Tail(@)]

\* a range loop that ends as soon as it finds ch empty
DrainedWhenEmpty(ch) == ch.buf = <<>>

\* a range loop over ch ends when ch is closed and drained
Drained(ch) == ch.closed /\ ch.buf = <<>>

\* sync.WaitGroup.Wait returns
WaitReturns(counter) == counter = 0

\* The candidate the next push creates.
NewRepo(u, pa) ==
  [id |-> Len(pushed) + 1, GitCloneURL |-> u, FileRawURL |-> FileRawURL(u),
   Pa |-> pa]

\* A producer executes c.repositories <- r (inside processAndGetNextURL or
\* processSingleRepo).  A send on a closed channel panics.
Push(u, pa) ==
  /\ Len(pushed) < MaxCandidates
  /\ IF repositories.closed
       THEN /\ panicked' = TRUE
            /\ UNCHANGED <<repositories, pushed>>
       ELSE /\ HasRoom(repositories)
            /\ repositories' = Send(repositories, NewRepo(u, pa))
            /\ pushed' = Append(pushed, NewRepo(u, pa))
            /\ UNCHANGED panicked

(* ---- CrawlPublisher goroutines ---------------------------------------- *)

\* CrawlPublisher, head of "for _, orgURL := range pa.Organizations": with an
\* organization left, KnownHost is called (its error is only logged) and
\* CrawlOrg starts: generateAPIURLs returns n seed URLs (none when it fails),
\* and the first one is paginated.  Without one, the repositories loop starts
\* (and what is known of the last CrawlOrg call is forgotten).
PubNextOrg(i) ==
  /\ ~panicked
  /\ pub[i].pc = "org"
  /\ IF pub[i].org < Len(pub[i].pa.Organizations)
       THEN \E n \in 0..MaxSeeds :
              pub' = [pub EXCEPT ![i] =
                        [@ EXCEPT !.org = @ + 1,
                                  !.seeds = n,
                                  !.seed = IF n = 0 THEN 0 ELSE 1,
                                  !.page = IF n = 0 THEN 0 ELSE 1,
                                  !.ended = <<>>,
                                  !.reqs = IF n = 0 THEN <<>> ELSE <<1>>,
                                  !.pc = IF n = 0 THEN "org" ELSE "page"]]
       ELSE pub' = [pub EXCEPT ![i] =
                      [@ EXCEPT !.pc = "repo", !.seeds = 0, !.seed = 0,
                                !.ended = <<>>, !.reqs = <<>>]]
  /\ UNCHANGED <<badYaml, index, validation, wg, waitingLoop, returns, mode, publishers, repoPa, mainpc, repo, repositories, temp,
                 reposChanClosed, publishersWg, repositoriesWg, closerpc,
                 worker, toBeRemoved, pushed, intakeCloses, trace, esCalls,
                 ret, panicked>>

\* processAndGetNextURL pushes one candidate of the page it is decoding.
PubPagePush(i) ==
  /\ ~panicked
  /\ pub[i].pc = "page"
  /\ \E u \in CloneURLs : Push(u, pub[i].pa)
  /\ UNCHANGED <<badYaml, index, validation, wg, waitingLoop, returns, mode, publishers, repoPa, mainpc, repo, temp,
                 reposChanClosed, publishersWg, repositoriesWg, pub, closerpc,
                 worker, toBeRemoved, intakeCloses, trace, esCalls, ret>>

\* CrawlOrg with "return" in the place of "continue ORG".
AfterPageReturnOnError(p, res) ==
  IF res \in {"err", "last"}
    THEN [p EXCEPT !.pc = "org", !.page = 0, !.ended = Append(@, res)]
    ELSE [p EXCEPT !.page = @ + 1, !.reqs = Append(@, p.page + 1)]

\* CrawlOrg without "continue ORG": after an error the loop goes on with the
\* next page of the same seed.
AfterPageNoContinue(p, res) ==
  IF res = "last"
    THEN [p EXCEPT !.pc = "org", !.page = 0, !.ended = Append(@, res)]
    ELSE [p EXCEPT !.page = @ + 1, !.reqs = Append(@, p.page + 1),
                   !.ended = IF res = "err" THEN Append(@, res) ELSE @]

\* What CrawlOrg does with the result of processAndGetNextURL on the current
\* page: "err" is a non-nil error, "last" an empty nextURL, "next" another
\* page.  err: continue ORG (the next seed, or the end of the seed loop);
\* last: return; next: orgURL = nextURL.
AfterPage(p, res) ==
  CASE res = "err" /\ p.seed < p.seeds ->
         [p EXCEPT !.seed = @ + 1, !.page = 1, !.ended = Append(@, res),
                   !.reqs = <<1>>]
    [] res = "err" /\ p.seed >= p.seeds ->
         [p EXCEPT !.pc = "org", !.page = 0, !.ended = Append(@, res)]
    [] res = "last" ->
         [p EXCEPT !.pc = "org", !.page = 0, !.ended = Append(@, res)]
    [] OTHER ->
         [p EXCEPT !.page = @ + 1, !.reqs = Append(@, p.page + 1)]

\* processAndGetNextURL returns to CrawlOrg.
PubPageReturn(i) ==
  /\ ~panicked
  /\ pub[i].pc = "page"
  /\ \E res \in {"err", "last", "next"} :
       /\ (res = "next" => pub[i].page < MaxPages)
       /\ pub' = [pub EXCEPT ![i] = AfterPage(@, res)]
  /\ UNCHANGED <<badYaml, index, validation, wg, waitingLoop, returns, mode, publishers, repoPa, mainpc, repo, repositories, temp,
                 reposChanClosed, publishersWg, repositoriesWg, closerpc,
                 worker, toBeRemoved, pushed, intakeCloses, trace, esCalls,
                 ret, panicked>>

\* CrawlPublisher, head of "for _, repoURL := range pa.Repositories": with a
\* URL left, KnownHost is called (its error is only logged) and
\* processSingleRepo is entered; without one the function returns and the
\* deferred c.publishersWg.Done() runs.
PubNextRepo(i) ==
  /\ ~panicked
  /\ pub[i].pc = "repo"
  /\ IF pub[i].rep < Len(pub[i].pa.Repositories)
       THEN /\ pub' = [pub EXCEPT ![i].rep = @ + 1, ![i].pc = "single"]
            /\ UNCHANGED publishersWg
       ELSE /\ pub' = [pub EXCEPT ![i].pc = "done"]
            /\ publishersWg' = publishersWg - 1
  /\ UNCHANGED <<badYaml, index, validation, wg, waitingLoop, returns, mode, publishers, repoPa, mainpc, repo, repositories, temp,
                 reposChanClosed, repositoriesWg, closerpc, worker,
                 toBeRemoved, pushed, intakeCloses, trace, esCalls, ret,
                 panicked>>

\* processSingleRepo pushes the candidate of the repository URL and returns.
PubSinglePush(i) ==
  /\ ~panicked
  /\ pub[i].pc = "single"
  /\ \E u \in CloneURLs : Push(u, pub[i].pa)
  /\ pub' = [pub EXCEPT ![i].pc = IF panicked' THEN @ ELSE "repo"]
  /\ UNCHANGED <<badYaml, index, validation, wg, waitingLoop, returns, mode, publishers, repoPa, mainpc, repo, temp,
                 reposChanClosed, publishersWg, repositoriesWg, closerpc,
                 worker, toBeRemoved, intakeCloses, trace, esCalls, ret>>

\* processSingleRepo fails: nothing is pushed, the error is dropped.
PubSingleFail(i) ==
  /\ ~panicked
  /\ pub[i].pc = "single"
  /\ pub' = [pub EXCEPT ![i].pc = "repo"]
  /\ UNCHANGED <<badYaml, index, validation, wg, waitingLoop, returns, mode, publishers, repoPa, mainpc, repo, repositories, temp,
                 reposChanClosed, publishersWg, repositoriesWg, closerpc,
                 worker, toBeRemoved, pushed, intakeCloses, trace, esCalls,
                 ret, panicked>>

\* The closing goroutine waiting on the wrong wait-group.
PublishersDoneWrongGroup == WaitReturns(repositoriesWg)

\* c.publishersWg.Wait() of the closing goroutine returns.
PublishersDone == WaitReturns(publishersWg)

\* The anonymous goroutine of CrawlPublishers:
\* c.publishersWg.Wait(); close(c.repositories).  Closing a closed channel
\* panics.
Closer ==
  /\ ~panicked
  /\ closerpc = "wait"
  /\ PublishersDone
  /\ closerpc' = "done"
  /\ IF repositories.closed
       THEN /\ panicked' = TRUE
            /\ UNCHANGED <<repositories, intakeCloses>>
       ELSE /\ repositories' = [repositories EXCEPT !.closed = TRUE]
            /\ intakeCloses' = intakeCloses + 1
            /\ UNCHANGED panicked
  /\ UNCHANGED <<badYaml, index, validation, wg, waitingLoop, returns, mode, publishers, repoPa, mainpc, repo, temp,
                 reposChanClosed, publishersWg, repositoriesWg, pub, worker,
                 toBeRemoved, pushed, trace, esCalls, ret>>

(* ---- CrawlRepo -------------------------------------------------------- *)

\* CrawlRepo: KnownHost fails and its error is returned, or it resolves the
\* domain and processSingleRepo is entered.
RepoKnownHost ==
  /\ ~panicked
  /\ mainpc = "CrawlRepo"
  /\ \E ok \in BOOLEAN :
       IF ok THEN /\ mainpc' = "single"
                  /\ UNCHANGED ret
             ELSE /\ mainpc' = "done"
                  /\ ret' = "KnownHost error"
  /\ UNCHANGED <<badYaml, index, validation, wg, waitingLoop, returns, mode, publishers, repoPa, repo, repositories, temp,
                 reposChanClosed, publishersWg, repositoriesWg, pub, closerpc,
                 worker, toBeRemoved, pushed, intakeCloses, trace, esCalls,
                 panicked>>

\* CrawlRepo: processSingleRepo pushes the candidate and returns nil.
RepoSinglePush ==
  /\ ~panicked
  /\ mainpc = "single"
  /\ \E u \in CloneURLs : Push(u, repoPa)
  /\ mainpc' = "close"
  /\ UNCHANGED <<badYaml, index, validation, wg, waitingLoop, returns, mode, publishers, repoPa, repo, temp, reposChanClosed,
                 publishersWg, repositoriesWg, pub, closerpc, worker,
                 toBeRemoved, intakeCloses, trace, esCalls, ret>>

\* CrawlRepo: processSingleRepo fails and its error is returned.
RepoSingleFail ==
  /\ ~panicked
  /\ mainpc = "single"
  /\ mainpc' = "done"
  /\ ret' = "processSingleRepo error"
  /\ UNCHANGED <<badYaml, index, validation, wg, waitingLoop, returns, mode, publishers, repoPa, repo, repositories, temp,
                 reposChanClosed, publishersWg, repositoriesWg, pub, closerpc,
                 worker, toBeRemoved, pushed, intakeCloses, trace, esCalls,
                 panicked>>

\* CrawlRepo: close(c.repositories), then crawl() is called.
RepoClose ==
  /\ ~panicked
  /\ mainpc = "close"
  /\ mainpc' = "crawl"
  /\ IF repositories.closed
       THEN /\ panicked' = TRUE
            /\ UNCHANGED <<repositories, intakeCloses>>
       ELSE /\ repositories' = [repositories EXCEPT !.closed = TRUE]
            /\ intakeCloses' = intakeCloses + 1
            /\ UNCHANGED panicked
  /\ UNCHANGED <<badYaml, index, validation, wg, waitingLoop, returns, mode, publishers, repoPa, repo, temp, reposChanClosed,
                 publishersWg, repositoriesWg, pub, closerpc, worker,
                 toBeRemoved, pushed, trace, esCalls, ret>>

(* ---- CrawlPublishers -------------------------------------------------- *)

\* Number of CrawlPublisher goroutines started so far.
Started == Cardinality({i \in 1..MaxPublishers : pub[i].pc # "none"})

\* CrawlPublishers, one turn of "for _, pa := range publishers":
\* c.publishersWg.Add(1); go c.CrawlPublisher(pa)
SpawnPublisher ==
  /\ ~panicked
  /\ mainpc = "CrawlPublishers"
  /\ Started < Len(publishers)
  /\ publishersWg' = publishersWg + 1
  /\ pub' = [pub EXCEPT ![Started + 1] =
               [IdlePub EXCEPT !.pc = "org", !.pa = publishers[Started + 1]]]
  /\ UNCHANGED <<badYaml, index, validation, wg, waitingLoop, returns, mode, publishers, repoPa, mainpc, repo, repositories, temp,
                 reposChanClosed, repositoriesWg, closerpc, worker,
                 toBeRemoved, pushed, intakeCloses, trace, esCalls, ret,
                 panicked>>

\* CrawlPublishers after the loop: the closing goroutine is started and
\* removeBlackListedFromRepositories is called, which makes temp.
SpawnCloser ==
  /\ ~panicked
  /\ mainpc = "CrawlPublishers"
  /\ Started = Len(publishers)
  /\ closerpc' = "wait"
  /\ temp' = NewChan
  /\ mainpc' = "filter"
  /\ UNCHANGED <<badYaml, index, validation, wg, waitingLoop, returns, mode, publishers, repoPa, repo, repositories,
                 reposChanClosed, publishersWg, repositoriesWg, pub, worker,
                 toBeRemoved, pushed, intakeCloses, trace, esCalls, ret,
                 panicked>>

\* val, ok := listedRepos[repo.GitCloneURL]
Listed(r) == r.GitCloneURL \in DOMAIN listedRepos

\* removeBlackListedFromRepositories, "for repo := range c.repositories"
\* receives a candidate: a listed one is appended to toBeRemoved, another one
\* is to be sent on temp.
FilterRecv ==
  /\ ~panicked
  /\ mainpc = "filter"
  /\ repositories.buf # <<>>
  /\ repositories' = Recv(repositories)
  /\ LET r == Head(repositories.buf) IN
       IF Listed(r)
         THEN /\ toBeRemoved' = Append(toBeRemoved, listedRepos[r.GitCloneURL])
              /\ UNCHANGED <<mainpc, repo>>
         ELSE /\ repo' = r
              /\ mainpc' = "filter_send"
              /\ UNCHANGED toBeRemoved
  /\ UNCHANGED <<badYaml, index, validation, wg, waitingLoop, returns, mode, publishers, repoPa, temp, reposChanClosed,
                 publishersWg, repositoriesWg, pub, closerpc, worker, pushed,
                 intakeCloses, trace, esCalls, ret, panicked>>

\* removeBlackListedFromRepositories: temp <- repo
FilterSend ==
  /\ ~panicked
  /\ mainpc = "filter_send"
  /\ HasRoom(temp)
  /\ temp' = Send(temp, repo)
  /\ repo' = NoRepo
  /\ mainpc' = "filter"
  /\ UNCHANGED <<badYaml, index, validation, wg, waitingLoop, returns, mode, publishers, repoPa, repositories, reposChanClosed,
                 publishersWg, repositoriesWg, pub, closerpc, worker,
                 toBeRemoved, pushed, intakeCloses, trace, esCalls, ret,
                 panicked>>

\* removeBlackListedFromRepositories: the range loop ends; close(temp);
\* c.repositories = temp; return.  CrawlPublishers then calls crawl().
FilterEnd ==
  /\ ~panicked
  /\ mainpc = "filter"
  /\ Drained(repositories)
  /\ repositories' = [temp EXCEPT !.closed = TRUE]
  /\ temp' = NewChan
  /\ mainpc' = "crawl"
  /\ UNCHANGED <<badYaml, index, validation, wg, waitingLoop, returns, mode, publishers, repoPa, repo, reposChanClosed,
                 publishersWg, repositoriesWg, pub, closerpc, worker,
                 toBeRemoved, pushed, intakeCloses, trace, esCalls, ret,
                 panicked>>

(* ---- crawl ------------------------------------------------------------ *)

\* crawl(): reposChan is made and the pool is started:
\* for i := 0; i < 5; i++ { c.repositoriesWg.Add(1); go c.ProcessRepositories(reposChan) }
\* No goroutine can observe the pool half started, so the loop is one step.
CrawlStart ==
  /\ ~panicked
  /\ mainpc = "crawl"
  /\ reposChanClosed' = FALSE
  /\ repositoriesWg' = repositoriesWg + PoolSize
  /\ worker' = [w \in 1..PoolSize |-> [IdleWorker EXCEPT !.pc = "recv"]]
  /\ mainpc' = "feed"
  /\ UNCHANGED <<badYaml, index, validation, wg, waitingLoop, returns, mode, publishers, repoPa, repo, repositories, temp,
                 publishersWg, pub, closerpc, toBeRemoved, pushed,
                 intakeCloses, trace, esCalls, ret, panicked>>

\* crawl(), "for repo := range c.repositories" receives a candidate.
FeedRecv ==
  /\ ~panicked
  /\ mainpc = "feed"
  /\ repositories.buf # <<>>
  /\ repo' = Head(repositories.buf)
  /\ repositories' = Recv(repositories)
  /\ mainpc' = "feed_send"
  /\ UNCHANGED <<badYaml, index, validation, wg, waitingLoop, returns, mode, publishers, repoPa, temp, reposChanClosed,
                 publishersWg, repositoriesWg, pub, closerpc, worker,
                 toBeRemoved, pushed, intakeCloses, trace, esCalls, ret,
                 panicked>>

\* A worker that receives again while its ProcessRepo call is still running.
ReceivingWhileBusy(w) == worker[w].pc \in {"recv", "process"}

\* ProcessRepositories is at "for repository := range repos", ready to
\* receive.
Receiving(w) == worker[w].pc = "recv"

\* crawl(): reposChan <- repo.  reposChan is unbuffered: the send completes
\* together with the receive of one worker, which enters ProcessRepo.
FeedSend(w) ==
  /\ ~panicked
  /\ mainpc = "feed_send"
  /\ Receiving(w)
  /\ worker' = [worker EXCEPT ![w] = [pc |-> "process", repository |-> repo]]
  /\ trace' = [trace EXCEPT ![repo.id] = Append(@, "recv")]
  /\ repo' = NoRepo
  /\ mainpc' = "feed"
  /\ UNCHANGED <<badYaml, index, validation, wg, waitingLoop, returns, mode, publishers, repoPa, repositories, temp,
                 reposChanClosed, publishersWg, repositoriesWg, pub, closerpc,
                 toBeRemoved, pushed, intakeCloses, esCalls, ret, panicked>>

\* crawl(): the range loop ends; close(reposChan).
FeedEnd ==
  /\ ~panicked
  /\ mainpc = "feed"
  /\ Drained(repositories)
  /\ reposChanClosed' = TRUE
  /\ mainpc' = "wait"
  /\ UNCHANGED <<badYaml, index, validation, wg, waitingLoop, returns, mode, publishers, repoPa, repo, repositories, temp,
                 publishersWg, repositoriesWg, pub, closerpc, worker,
                 toBeRemoved, pushed, intakeCloses, trace, esCalls, ret,
                 panicked>>

\* crawl() waiting on the wrong wait-group.
WorkersDoneWrongGroup == WaitReturns(publishersWg)

\* c.repositoriesWg.Wait() of crawl() returns.
WorkersDone == WaitReturns(repositoriesWg)

\* crawl(): c.repositoriesWg.Wait(), then the finalization starts.
WaitWorkers ==
  /\ ~panicked
  /\ mainpc = "wait"
  /\ WorkersDone
  /\ mainpc' = "flush"
  /\ UNCHANGED <<badYaml, index, validation, wg, waitingLoop, returns, mode, publishers, repoPa, repo, repositories, temp,
                 reposChanClosed, publishersWg, repositoriesWg, pub, closerpc,
                 worker, toBeRemoved, pushed, intakeCloses, trace, esCalls,
                 ret, panicked>>

\* Where crawl() goes after elastic.Flush returned: its error is logged only.
AfterFlush(ok) == "alias_publishers"

\* crawl(): err := elastic.Flush(c.index, c.es)
Flush ==
  /\ ~panicked
  /\ mainpc = "flush"
  /\ \E ok \in BOOLEAN :
       /\ esCalls' = Append(esCalls, [call |-> "Flush", ok |-> ok])
       /\ mainpc' = AfterFlush(ok)
  /\ UNCHANGED <<badYaml, index, validation, wg, waitingLoop, returns, mode, publishers, repoPa, repo, repositories, temp,
                 reposChanClosed, publishersWg, repositoriesWg, pub, closerpc,
                 worker, toBeRemoved, pushed, intakeCloses, trace, ret,
                 panicked>>

\* Where crawl() goes after an elastic.AliasUpdate returned: an error is
\* returned at once, otherwise the next statement runs.
AfterAlias(ok, next) == IF ok THEN next ELSE "return"

\* crawl(): elastic.AliasUpdate(ELASTIC_PUBLISHERS_INDEX, ELASTIC_ALIAS, c.es)
AliasPublishers ==
  /\ ~panicked
  /\ mainpc = "alias_publishers"
  /\ \E ok \in BOOLEAN :
       /\ esCalls' = Append(esCalls, [call |-> "AliasUpdate publishers", ok |-> ok])
       /\ mainpc' = AfterAlias(ok, "alias_index")
       /\ ret' = IF ok THEN ret ELSE "Error updating Elastic Alias"
  /\ UNCHANGED <<badYaml, index, validation, wg, waitingLoop, returns, mode, publishers, repoPa, repo, repositories, temp,
                 reposChanClosed, publishersWg, repositoriesWg, pub, closerpc,
                 worker, toBeRemoved, pushed, intakeCloses, trace, panicked>>

\* crawl(): elastic.AliasUpdate(c.index, ELASTIC_ALIAS, c.es); return nil
AliasIndex ==
  /\ ~panicked
  /\ mainpc = "alias_index"
  /\ \E ok \in BOOLEAN :
       /\ esCalls' = Append(esCalls, [call |-> "AliasUpdate index", ok |-> ok])
       /\ mainpc' = AfterAlias(ok, "return")
       /\ ret' = IF ok THEN "nil" ELSE "Error updating Elastic Alias"
  /\ UNCHANGED <<badYaml, index, validation, wg, waitingLoop, returns, mode, publishers, repoPa, repo, repositories, temp,
                 reposChanClosed, publishersWg, repositoriesWg, pub, closerpc,
                 worker, toBeRemoved, pushed, intakeCloses, trace, panicked>>

\* crawl() returns: the deferred c.publishersWg.Wait() runs, then the entry
\* point returns crawl()'s result to its caller.
Return ==
  /\ ~panicked
  /\ mainpc = "return"
  /\ WaitReturns(publishersWg)
  /\ mainpc' = "done"
  /\ UNCHANGED <<badYaml, index, validation, wg, waitingLoop, returns, mode, publishers, repoPa, repo, repositories, temp,
                 reposChanClosed, publishersWg, repositoriesWg, pub, closerpc,
                 worker, toBeRemoved, pushed, intakeCloses, trace, esCalls,
                 ret, panicked>>

(* ---- validation of a manifest ----------------------------------------- *)

\* The characters of the administration codes the model draws: a letter in
\* both cases, another letter, white space.
CodeChars == {"a", "A", "b", " "}

Codes == SeqsUpTo(CodeChars, MaxCodeLen)

\* unicode.IsSpace
IsSpace(c) == c = " "

RECURSIVE TrimLeftSpace(_)
TrimLeftSpace(s) ==
  IF s # <<>> /\ IsSpace(Head(s)) THEN TrimLeftSpace(Tail(s)) ELSE s

RECURSIVE TrimRightSpace(_)
TrimRightSpace(s) ==
  IF s # <<>> /\ IsSpace(s[Len(s)])
    THEN TrimRightSpace(SubSeq(s, 1, Len(s) - 1))
    ELSE s

\* strings.TrimSpace
TrimSpace(s) == TrimRightSpace(TrimLeftSpace(s))

\* Case folding of one character.
Fold(c) == CASE c = "A" -> "a" [] c = "B" -> "b" [] OTHER -> c

\* strings.EqualFold
EqualFold(s, t) ==
  /\ Len(s) = Len(t)
  /\ \A k \in 1..Len(s) : Fold(s[k]) = Fold(t[k])

\* The nil error; an error is a non-empty sequence, the parts of its message.
Nil == <<>>

\* validateFile comparing the two codes as they are.
validateFileExact(pa, parser, fileRawURL) ==
  IF pa.CodiceIPA # parser.CodiceIPA
    THEN <<"codiceIPA for: ", fileRawURL, " is ", parser.CodiceIPA,
           ", which differs from the one assigned to the org in the whitelist: ",
           pa.CodiceIPA>>
    ELSE Nil

\* validateFile: parser stands for the parsed manifest, of which the function
\* reads PublicCode.It.Riuso.CodiceIPA.
validateFile(pa, parser, fileRawURL) ==
  IF ~EqualFold(TrimSpace(pa.CodiceIPA), TrimSpace(parser.CodiceIPA))
    THEN <<"codiceIPA for: ", fileRawURL, " is ", parser.CodiceIPA,
           ", which differs from the one assigned to the org in the whitelist: ",
           pa.CodiceIPA>>
    ELSE Nil

\* getRemoteFile: data is what the parser makes of the manifest bytes, valid
\* or not, and the administration code it carries.
getRemoteFile(data, fileRawURL, pa) ==
  [parser |-> [CodiceIPA |-> data.CodiceIPA],
   err |-> IF data.valid THEN Nil ELSE <<"parse error">>]

\* validateRemoteFile
validateRemoteFile(data, fileRawURL, pa) ==
  LET got == getRemoteFile(data, fileRawURL, pa) IN
    IF got.err # Nil THEN got.err
                     ELSE validateFile(pa, got.parser, fileRawURL)

\* A call validateFile(pa, parser, "raw") returns.
ValidateFileCall ==
  /\ validation.pc = "call"
  /\ validation' = [validation EXCEPT
                      !.pc = "returned",
                      !.err = validateFile(validation.pa, validation.parser, "raw")]
  /\ UNCHANGED <<wg, waitingLoop, returns, mode, publishers, repoPa, mainpc, repo, repositories, temp,
                 reposChanClosed, publishersWg, repositoriesWg, pub, closerpc,
                 worker, toBeRemoved, pushed, intakeCloses, trace, esCalls,
                 ret, panicked, badYaml, index>>

\* validateFile called on any publisher code and any manifest code, on a
\* crawler that is not crawling.
InitValidate ==
  /\ InitCrawler
  /\ mode = "repo"
  /\ repoPa.Name = "pa1"
  /\ \E c, m \in Codes :
       validation = [pc |-> "call", pa |-> [NoPA EXCEPT !.CodiceIPA = c],
                     parser |-> [CodiceIPA |-> m], err |-> Nil]

NextValidate == ValidateFileCall

SpecValidate == InitValidate /\ [][NextValidate]_vars

(* ---- the worker pool -------------------------------------------------- *)

\* ProcessRepositories: the range loop over the closed reposChan ends and the
\* deferred c.repositoriesWg.Done() runs.
WorkerExit(w) ==
  /\ ~panicked
  /\ worker[w].pc = "recv"
  /\ reposChanClosed
  /\ worker' = [worker EXCEPT ![w].pc = "done"]
  /\ repositoriesWg' = repositoriesWg - 1
  /\ UNCHANGED <<badYaml, index, validation, wg, waitingLoop, returns, mode, publishers, repoPa, mainpc, repo, repositories, temp,
                 reposChanClosed, publishersWg, pub, closerpc, toBeRemoved,
                 pushed, intakeCloses, trace, esCalls, ret, panicked>>

\* Results of httpclient.GetURL: status 200, another status, transport error.
FetchResults == {"GetURL:200", "GetURL:404", "GetURL:error"}

\* The manifests a fetch with status 200 can return: well-formed or not,
\* with one of two administration codes.
ManifestCodes == {<<"a", "b">>, <<"b">>}

Manifests == [valid : BOOLEAN, CodiceIPA : ManifestCodes]

\* The error validateRemoteFile returned, as the trace records it.
ValidationResult(err) ==
  IF err = Nil THEN "validateRemoteFile:nil" ELSE "validateRemoteFile:error"

\* Results of CloneRepository.
CloneResults == {"CloneRepository:nil", "CloneRepository:error"}

\* Results of repository.CalculateRepoActivity.
ActivityResults == {"CalculateRepoActivity:nil", "CalculateRepoActivity:error"}

\* ProcessRepo without the return that follows logBadYamlToFile.
ProcessRepoCallsNoReturn(r, f, data, c, a) ==
  IF f # "GetURL:200"
    THEN <<f>>
    ELSE IF r.Pa.UnknownIPA
      THEN <<f, c, a, "saveToES">>
      ELSE LET v == ValidationResult(validateRemoteFile(data, r.FileRawURL, r.Pa)) IN
           (IF v # "validateRemoteFile:nil"
              THEN <<f, v, "logBadYamlToFile">> ELSE <<f, v>>)
           \o <<c, a, "saveToES">>

\* ProcessRepo without the return that follows a failed fetch.
ProcessRepoCallsNoSkip(r, f, data, c, a) ==
  IF r.Pa.UnknownIPA
    THEN <<f, c, a, "saveToES">>
    ELSE LET v == ValidationResult(validateRemoteFile(data, r.FileRawURL, r.Pa)) IN
         IF v # "validateRemoteFile:nil"
           THEN <<f, v, "logBadYamlToFile">>
           ELSE <<f, v, c, a, "saveToES">>

\* ProcessRepo without the call of logBadYamlToFile.
ProcessRepoCallsNoDeadLetter(r, f, data, c, a) ==
  IF f # "GetURL:200"
    THEN <<f>>
    ELSE IF r.Pa.UnknownIPA
      THEN <<f, c, a, "saveToES">>
      ELSE LET v == ValidationResult(validateRemoteFile(data, r.FileRawURL, r.Pa)) IN
           IF v # "validateRemoteFile:nil"
             THEN <<f, v>>
             ELSE <<f, v, c, a, "saveToES">>

\* ProcessRepo without the test of repository.Pa.UnknownIPA.
ProcessRepoCallsAlwaysValidate(r, f, data, c, a) ==
  IF f # "GetURL:200"
    THEN <<f>>
    ELSE LET v == ValidationResult(validateRemoteFile(data, r.FileRawURL, r.Pa)) IN
         IF v # "validateRemoteFile:nil"
           THEN <<f, v, "logBadYamlToFile">>
           ELSE <<f, v, c, a, "saveToES">>

\* ProcessRepo returning when CloneRepository fails.
ProcessRepoCallsStopOnCloneError(r, f, data, c, a) ==
  LET rest == IF c = "CloneRepository:error" THEN <<c>> ELSE <<c, a, "saveToES">> IN
  IF f # "GetURL:200"
    THEN <<f>>
    ELSE IF r.Pa.UnknownIPA
      THEN <<f>> \o rest
      ELSE LET v == ValidationResult(validateRemoteFile(data, r.FileRawURL, r.Pa)) IN
           IF v # "validateRemoteFile:nil"
             THEN <<f, v, "logBadYamlToFile">>
             ELSE <<f, v>> \o rest

\* The calls ProcessRepo makes on repository r, with their results, when the
\* manifest fetch returns f with body data, CloneRepository returns c and
\* CalculateRepoActivity returns a.  Failures of CloneRepository,
\* CalculateRepoActivity and saveToES are logged only.
ProcessRepoCalls(r, f, data, c, a) ==
  IF f # "GetURL:200"
    THEN <<f>>
    ELSE IF r.Pa.UnknownIPA
      THEN <<f, c, a, "saveToES">>
      ELSE LET v == ValidationResult(validateRemoteFile(data, r.FileRawURL, r.Pa)) IN
           IF v # "validateRemoteFile:nil"
             THEN <<f, v, "logBadYamlToFile">>
             ELSE <<f, v, c, a, "saveToES">>

\* logBadYamlToFile(fileRawURL): the dead-letter log gains the URL.
logBadYamlToFile(log, fileRawURL) == log \cup {fileRawURL}

\* A key that is numbered after the candidate.
PublicationKeyPerCandidate(r) ==
  IF r.id % 2 = 0 THEN "da39a3" ELSE "356a19"

\* The key of a repository's document: the SHA-1 digest of its clone URL, in
\* hexadecimal.
PublicationKey(r) ==
  CASE r.GitCloneURL = "u1" -> "356a19"
    [] r.GitCloneURL = "u2" -> "da4b92"
    [] OTHER -> "da39a3"

\* c.saveToES: the document of repository r is staged under its key, in the
\* place of the document that had the key.
saveToES(idx, r) ==
  {d \in idx : d.key # PublicationKey(r)}
    \cup {[key |-> PublicationKey(r), GitCloneURL |-> r.GitCloneURL]}

\* ProcessRepositories: c.ProcessRepo(repository) runs to its return.
ProcessRepo(w) ==
  /\ ~panicked
  /\ worker[w].pc = "process"
  /\ \E calls \in {ProcessRepoCalls(worker[w].repository, f, data, c, a) :
                       f \in FetchResults, data \in Manifests,
                       c \in CloneResults, a \in ActivityResults} :
       LET r == worker[w].repository
           called(name) == \E k \in DOMAIN calls : calls[k] = name
       IN /\ trace' = [trace EXCEPT ![r.id] = @ \o calls]
          /\ badYaml' = IF called("logBadYamlToFile")
                          THEN logBadYamlToFile(badYaml, r.FileRawURL)
                          ELSE badYaml
          /\ index' = IF called("saveToES") THEN saveToES(index, r) ELSE index
  /\ worker' = [worker EXCEPT ![w] = [pc |-> "recv", repository |-> NoRepo]]
  /\ UNCHANGED <<validation, wg, waitingLoop, returns, mode, publishers, repoPa, mainpc, repo, repositories, temp,
                 reposChanClosed, publishersWg, repositoriesWg, pub, closerpc,
                 toBeRemoved, pushed, intakeCloses, esCalls, ret, panicked>>

(* ---- specification ---------------------------------------------------- *)

Next ==
  \/ RepoKnownHost
  \/ RepoSinglePush
  \/ RepoSingleFail
  \/ RepoClose
  \/ SpawnPublisher
  \/ SpawnCloser
  \/ \E i \in 1..MaxPublishers : PubNextOrg(i)
  \/ \E i \in 1..MaxPublishers : PubPagePush(i)
  \/ \E i \in 1..MaxPublishers : PubPageReturn(i)
  \/ \E i \in 1..MaxPublishers : PubNextRepo(i)
  \/ \E i \in 1..MaxPublishers : PubSinglePush(i)
  \/ \E i \in 1..MaxPublishers : PubSingleFail(i)
  \/ Closer
  \/ FilterRecv
  \/ FilterSend
  \/ FilterEnd
  \/ CrawlStart
  \/ FeedRecv
  \/ \E w \in 1..PoolSize : FeedSend(w)
  \/ FeedEnd
  \/ WaitWorkers
  \/ Flush
  \/ AliasPublishers
  \/ AliasIndex
  \/ Return
  \/ \E w \in 1..PoolSize : WorkerExit(w)
  \/ \E w \in 1..PoolSize : ProcessRepo(w)

Spec == Init /\ [][Next]_vars

(* ---- the first version: CrawlOrgs, WaitingLoop ------------------------ *)

\* What the first version of the Crawler does not have or does not touch.
NotInCrawlOrgs ==
  <<mode, publishers, repoPa, temp, reposChanClosed, publishersWg,
    repositoriesWg, closerpc, worker, toBeRemoved, badYaml, index, validation,
    returns>>

\* The Crawler after the first NewCrawler, and CrawlOrgs called on it.
InitCrawlOrgs ==
  /\ mode = "orgs"
  /\ publishers \in SeqsUpTo(PAs, MaxPublishers)
  /\ repoPa = CHOOSE p \in PAs : p.Name = "pa1"
  /\ mainpc = "CrawlOrgs"
  /\ repo = NoRepo
  /\ repositories = NewChan
  /\ temp = NewChan
  /\ reposChanClosed = FALSE
  /\ publishersWg = 0
  /\ repositoriesWg = 0
  /\ pub = [i \in 1..MaxPublishers |-> IdlePub]
  /\ closerpc = "none"
  /\ worker = [w \in 1..PoolSize |-> IdleWorker]
  /\ toBeRemoved = <<>>
  /\ pushed = <<>>
  /\ intakeCloses = 0
  /\ trace = [i \in 1..MaxCandidates |-> <<>>]
  /\ esCalls = <<>>
  /\ ret = "none"
  /\ panicked = FALSE
  /\ badYaml = {}
  /\ index = {}
  /\ returns = <<>>
  /\ validation = NoValidation
  /\ wg = 0
  /\ waitingLoop = "none"

\* CrawlOrgs, one turn of "for _, pa := range publishers":
\* c.wg.Add(1); go c.ProcessPA(pa)
CrawlOrgsSpawn ==
  /\ ~panicked
  /\ mainpc = "CrawlOrgs"
  /\ Started < Len(publishers)
  /\ wg' = wg + 1
  /\ pub' = [pub EXCEPT ![Started + 1] =
               [IdlePub EXCEPT !.pc = "org", !.pa = publishers[Started + 1]]]
  /\ UNCHANGED <<NotInCrawlOrgs, mainpc, repo, repositories, pushed,
                 intakeCloses, trace, esCalls, ret, panicked, waitingLoop>>

\* CrawlOrgs after the loop calls crawl(), which starts WaitingLoop and calls
\* ProcessRepositories.
CrawlOrgsCrawl ==
  /\ ~panicked
  /\ mainpc = "CrawlOrgs"
  /\ Started = Len(publishers)
  /\ waitingLoop' = "wait"
  /\ mainpc' = "range"
  /\ UNCHANGED <<NotInCrawlOrgs, repo, repositories, pub, pushed, intakeCloses,
                 trace, esCalls, ret, panicked, wg>>

\* ProcessPA, head of "for _, org := range pa.Organizations": with an
\* organization left ProcessPADomain is entered on its first page (the errors
\* of url.Parse, KnownHost and generateAPIURL are logged only); without one
\* c.wg.Done() runs and ProcessPA returns.
ProcessPANextOrg(i) ==
  /\ ~panicked
  /\ mode = "orgs"
  /\ pub[i].pc = "org"
  /\ IF pub[i].org < Len(pub[i].pa.Organizations)
       THEN /\ pub' = [pub EXCEPT ![i].org = @ + 1, ![i].page = 1,
                                  ![i].pc = "page"]
            /\ UNCHANGED wg
       ELSE /\ pub' = [pub EXCEPT ![i].pc = "done"]
            /\ wg' = wg - 1
  /\ UNCHANGED <<NotInCrawlOrgs, mainpc, repo, repositories, pushed,
                 intakeCloses, trace, esCalls, ret, panicked, waitingLoop>>

\* ProcessPADomain: processAndGetNextURL pushes one candidate of the page it
\* is decoding.
ProcessPAPush(i) ==
  /\ ~panicked
  /\ mode = "orgs"
  /\ pub[i].pc = "page"
  /\ \E u \in CloneURLs : Push(u, pub[i].pa)
  /\ UNCHANGED <<NotInCrawlOrgs, mainpc, repo, pub, intakeCloses, trace,
                 esCalls, ret, wg, waitingLoop>>

\* ProcessPADomain: processAndGetNextURL returns; an error or an empty
\* nextURL ends the organization, otherwise the next page follows.
ProcessPAPageReturn(i) ==
  /\ ~panicked
  /\ mode = "orgs"
  /\ pub[i].pc = "page"
  /\ \E res \in {"err", "last", "next"} :
       /\ (res = "next" => pub[i].page < MaxPages)
       /\ pub' = [pub EXCEPT ![i] =
                    IF res = "next" THEN [@ EXCEPT !.page = @ + 1]
                                    ELSE [@ EXCEPT !.page = 0, !.pc = "org"]]
  /\ UNCHANGED <<NotInCrawlOrgs, mainpc, repo, repositories, pushed,
                 intakeCloses, trace, esCalls, ret, panicked, wg, waitingLoop>>

\* WaitingLoop: c.wg.Wait() returns, close(c.repositories).
WaitingLoop ==
  /\ ~panicked
  /\ waitingLoop = "wait"
  /\ WaitReturns(wg)
  /\ waitingLoop' = "done"
  /\ IF repositories.closed
       THEN /\ panicked' = TRUE
            /\ UNCHANGED <<repositories, intakeCloses>>
       ELSE /\ repositories' = [repositories EXCEPT !.closed = TRUE]
            /\ intakeCloses' = intakeCloses + 1
            /\ UNCHANGED panicked
  /\ UNCHANGED <<NotInCrawlOrgs, mainpc, repo, pub, pushed, trace, esCalls,
                 ret, wg>>

\* ProcessRepositories of the first version, "for repository := range
\* c.repositories" receives a candidate.
RangeRecv ==
  /\ ~panicked
  /\ mainpc = "range"
  /\ repositories.buf # <<>>
  /\ repo' = Head(repositories.buf)
  /\ repositories' = Recv(repositories)
  /\ mainpc' = "add"
  /\ UNCHANGED <<NotInCrawlOrgs, pub, pushed, intakeCloses, trace, esCalls,
                 ret, panicked, wg, waitingLoop>>

\* c.wg.Add(1) is called with the counter at zero while WaitingLoop is not
\* past its c.wg.Wait(): sync.WaitGroup forbids it ("calls with a positive
\* delta that occur when the counter is zero must happen before a Wait"), and
\* the runtime may panic ("WaitGroup is reused before previous Wait has
\* returned") or let the call through.
AddMisused == wg = 0 /\ waitingLoop = "wait"

\* ProcessRepositories of the first version:
\* c.wg.Add(1); go c.CheckAvailability(repository)
RangeGo ==
  /\ ~panicked
  /\ mainpc = "add"
  /\ \E crash \in {c \in BOOLEAN : c => AddMisused} :
       IF crash
         THEN /\ panicked' = TRUE
              /\ UNCHANGED <<wg, trace, repo, mainpc>>
         ELSE /\ wg' = wg + 1
              /\ trace' = [trace EXCEPT ![repo.id] = Append(@, "CheckAvailability")]
              /\ repo' = NoRepo
              /\ mainpc' = "range"
              /\ UNCHANGED panicked
  /\ UNCHANGED <<NotInCrawlOrgs, repositories, pub, pushed, intakeCloses,
                 esCalls, ret, waitingLoop>>

\* CheckAvailability runs to its return; c.wg.Done() is called once on each
\* of its paths.
CheckAvailability(id) ==
  /\ ~panicked
  /\ mode = "orgs"
  /\ trace[id] = <<"CheckAvailability">>
  /\ trace' = [trace EXCEPT ![id] = Append(@, "Done")]
  /\ wg' = wg - 1
  /\ UNCHANGED <<NotInCrawlOrgs, mainpc, repo, repositories, pub, pushed,
                 intakeCloses, esCalls, ret, panicked, waitingLoop>>

\* ProcessRepositories of the first version: the range loop ends on the
\* closed and drained channel.
RangeEnd ==
  /\ ~panicked
  /\ mainpc = "range"
  /\ Drained(repositories)
  /\ mainpc' = "range_wait"
  /\ UNCHANGED <<NotInCrawlOrgs, repo, repositories, pub, pushed, intakeCloses,
                 trace, esCalls, ret, panicked, wg, waitingLoop>>

\* ProcessRepositories of the first version: c.wg.Wait() returns, and so
\* does ProcessRepositories.
RangeWait ==
  /\ ~panicked
  /\ mainpc = "range_wait"
  /\ WaitReturns(wg)
  /\ mainpc' = "orgs_flush"
  /\ UNCHANGED <<NotInCrawlOrgs, repo, repositories, pub, pushed, intakeCloses,
                 trace, esCalls, ret, panicked, wg, waitingLoop>>

\* crawl() of the first version: elastic.Flush, whose error is logged only.
OrgsFlush ==
  /\ ~panicked
  /\ mainpc = "orgs_flush"
  /\ \E ok \in BOOLEAN :
       esCalls' = Append(esCalls, [call |-> "Flush", ok |-> ok])
  /\ mainpc' = "orgs_alias"
  /\ UNCHANGED <<NotInCrawlOrgs, repo, repositories, pub, pushed, intakeCloses,
                 trace, ret, panicked, wg, waitingLoop>>

\* crawl() of the first version: the two elastic.AliasUpdate calls; the
\* error of one is returned at once.  CrawlOrgs returns what crawl() returns.
OrgsAlias ==
  /\ ~panicked
  /\ mainpc = "orgs_alias"
  /\ \E ok1, ok2 \in BOOLEAN :
       /\ esCalls' = esCalls
            \o <<[call |-> "AliasUpdate publishers", ok |-> ok1]>>
            \o (IF ok1 THEN <<[call |-> "AliasUpdate index", ok |-> ok2]>>
                       ELSE <<>>)
       /\ ret' = IF ok1 /\ ok2 THEN "nil" ELSE "Error updating Elastic Alias"
  /\ mainpc' = "done"
  /\ UNCHANGED <<NotInCrawlOrgs, repo, repositories, pub, pushed, intakeCloses,
                 trace, panicked, wg, waitingLoop>>

NextCrawlOrgs ==
  \/ CrawlOrgsSpawn
  \/ CrawlOrgsCrawl
  \/ \E i \in 1..MaxPublishers : ProcessPANextOrg(i)
  \/ \E i \in 1..MaxPublishers : ProcessPAPush(i)
  \/ \E i \in 1..MaxPublishers : ProcessPAPageReturn(i)
  \/ WaitingLoop
  \/ RangeRecv
  \/ RangeGo
  \/ \E id \in 1..MaxCandidates : CheckAvailability(id)
  \/ RangeEnd
  \/ RangeWait
  \/ OrgsFlush
  \/ OrgsAlias

SpecCrawlOrgs == InitCrawlOrgs /\ [][NextCrawlOrgs]_vars

\* A later crawl on a Crawler whose channel was made anew.
CrawlAgainNewChannel ==
  /\ ~panicked
  /\ mainpc = "done"
  /\ Len(returns) + 1 < MaxCrawls
  /\ returns' = Append(returns, ret)
  /\ mode' \in {"repo", "publishers"}
  /\ publishers' \in SeqsUpTo(PAs, MaxPublishers)
  /\ repoPa' \in PAs
  /\ (mode' = "repo" => publishers' = <<>>)
  /\ (mode' = "publishers" => repoPa' = CHOOSE p \in PAs : p.Name = "pa1")
  /\ mainpc' = IF mode' = "repo" THEN "CrawlRepo" ELSE "CrawlPublishers"
  /\ repo' = NoRepo
  /\ temp' = NewChan
  /\ reposChanClosed' = FALSE
  /\ pub' = [i \in 1..MaxPublishers |-> IdlePub]
  /\ closerpc' = "none"
  /\ worker' = [w \in 1..PoolSize |-> IdleWorker]
  /\ toBeRemoved' = <<>>
  /\ pushed' = <<>>
  /\ trace' = [i \in 1..MaxCandidates |-> <<>>]
  /\ esCalls' = <<>>
  /\ ret' = "none"
  /\ repositories' = NewChan
  /\ UNCHANGED <<publishersWg, repositoriesWg, intakeCloses, panicked,
                 badYaml, index, validation, wg, waitingLoop>>

\* CrawlRepo or CrawlPublishers is called on a Crawler on which a crawl has
\* returned.  The Crawler keeps its fields: c.repositories, the two
\* wait-groups, the index and the dead-letter log; make(chan Repository, 1000)
\* is in NewCrawler only.  The goroutines and the locals of the call are new,
\* and pushed, trace and esCalls tell of the new call.
CrawlAgain ==
  /\ ~panicked
  /\ mainpc = "done"
  /\ Len(returns) + 1 < MaxCrawls
  /\ returns' = Append(returns, ret)
  /\ mode' \in {"repo", "publishers"}
  /\ publishers' \in SeqsUpTo(PAs, MaxPublishers)
  /\ repoPa' \in PAs
  /\ (mode' = "repo" => publishers' = <<>>)
  /\ (mode' = "publishers" => repoPa' = CHOOSE p \in PAs : p.Name = "pa1")
  /\ mainpc' = IF mode' = "repo" THEN "CrawlRepo" ELSE "CrawlPublishers"
  /\ repo' = NoRepo
  /\ temp' = NewChan
  /\ reposChanClosed' = FALSE
  /\ pub' = [i \in 1..MaxPublishers |-> IdlePub]
  /\ closerpc' = "none"
  /\ worker' = [w \in 1..PoolSize |-> IdleWorker]
  /\ toBeRemoved' = <<>>
  /\ pushed' = <<>>
  /\ trace' = [i \in 1..MaxCandidates |-> <<>>]
  /\ esCalls' = <<>>
  /\ ret' = "none"
  /\ UNCHANGED <<repositories, publishersWg, repositoriesWg, intakeCloses,
                 panicked, badYaml, index, validation, wg, waitingLoop>>

\* Crawls on one Crawler, one after the other.
NextReuse == Next \/ CrawlAgain

SpecReuse == Init /\ [][NextReuse]_vars

(* ---- properties ------------------------------------------------------- *)

Ids == 1..Len(pushed)

Has(seq, x) == \E k \in 1..Len(seq) : seq[k] = x

Count(seq, x) == Cardinality({k \in 1..Len(seq) : seq[k] = x})

\* The three outcomes of a candidate.
Published(id) == Has(trace[id], "saveToES")

Rejected(id) == Has(trace[id], "logBadYamlToFile")

Skipped(id) ==
  /\ trace[id] # <<>>
  /\ trace[id][Len(trace[id])] \in {"GetURL:404", "GetURL:error"}

OutcomeCount(id) ==
  (IF Published(id) THEN 1 ELSE 0) + (IF Rejected(id) THEN 1 ELSE 0)
    + (IF Skipped(id) THEN 1 ELSE 0)

\* The candidates that are inside ProcessRepo: received by a worker, the call
\* has not returned.
InProcessRepo == {id \in Ids : trace[id] = <<"recv">>}

\* The candidates the blacklist filter of CrawlPublishers removes.
Filtered(id) == mode = "publishers" /\ Listed(pushed[id])

Returned == mainpc = "done"

C2_NeverAllBlocked == Returned \/ ENABLED Next

\* C3: in any crawl run, a candidate whose clone URL is a key of the
\* blacklist is never received by a worker and its manifest is never fetched.
C3_ListedNeverReceived ==
  \A id \in Ids : Listed(pushed[id]) => trace[id] = <<>>

\* C4: the removal list CrawlPublishers returns holds the external id of
\* every blacklisted clone URL that occurs among the candidates exactly once,
\* and no id of an entry that no candidate matched.
C4_RemovalListOncePerURL ==
  (Returned /\ mode = "publishers") =>
    \A u \in DOMAIN listedRepos :
      Count(toBeRemoved, listedRepos[u]) =
        IF \E id \in Ids : pushed[id].GitCloneURL = u THEN 1 ELSE 0

CallNames == [k \in 1..Len(esCalls) |-> esCalls[k].call]

FinalizationOrder == <<"Flush", "AliasUpdate publishers", "AliasUpdate index">>

\* C5: flush and alias updates are the last steps and each runs at most once:
\* the calls on the index client are a prefix of Flush, AliasUpdate
\* (publishers), AliasUpdate (index); and from the Flush call on every
\* publisher goroutine has finished, the intake channel has been closed,
\* c.repositories is closed and drained, every pool worker has returned and no
\* ProcessRepo call is in progress.
C5_FinalizationLast ==
  /\ Len(esCalls) <= 3
  /\ CallNames = SubSeq(FinalizationOrder, 1, Len(esCalls))
  /\ (mainpc = "flush" \/ esCalls # <<>>) =>
       /\ \A i \in 1..MaxPublishers :
            pub[i].pc = IF i <= Len(publishers) THEN "done" ELSE "none"
       /\ publishersWg = 0
       /\ intakeCloses = 1
       /\ Drained(repositories)
       /\ repo = NoRepo
       /\ \A w \in 1..PoolSize : worker[w].pc = "done"
       /\ repositoriesWg = 0
       /\ InProcessRepo = {}

C5_Witness ==
  /\ Returned
  /\ Len(esCalls) = 3
  /\ Len(publishers) = 2
  /\ \E id \in Ids : Published(id)

\* C6: if the flush or an alias update failed, the entry point returns a
\* non-nil error.
C6_FinalizationErrorReturned ==
  (Returned /\ \E k \in 1..Len(esCalls) : ~esCalls[k].ok) => ret # "nil"

\* C7: the alias of the content index is never updated in a run whose flush
\* failed.
C7_NoAliasAfterFailedFlush ==
  \A k \in 1..Len(esCalls) :
    esCalls[k].call = "AliasUpdate index" =>
      \A j \in 1..Len(esCalls) : esCalls[j].call = "Flush" => esCalls[j].ok

\* C8: the intake channel is closed at most once (exactly once when the
\* pipeline has passed the blacklist filter), only when the publishers
\* wait-group is zero and every publisher goroutine has returned, and no
\* goroutine sends on it or closes it once it is closed (either would panic).
C8_IntakeClosedOnce ==
  /\ ~panicked
  /\ intakeCloses <= 1
  /\ intakeCloses = 1 =>
       /\ publishersWg = 0
       /\ mode = "publishers" =>
            \A i \in 1..MaxPublishers :
              pub[i].pc = IF i <= Len(publishers) THEN "done" ELSE "none"
  /\ (mode = "publishers"
        /\ mainpc \notin {"CrawlPublishers", "filter", "filter_send"}) =>
       intakeCloses = 1

C8_Witness ==
  /\ mode = "publishers"
  /\ Len(publishers) = 2
  /\ intakeCloses = 1
  /\ mainpc = "filter"
  /\ \E i, j \in Ids : i # j /\ pushed[i].Pa # pushed[j].Pa

\* C9: at most PoolSize candidates are inside ProcessRepo, every candidate
\* inside ProcessRepo is held by exactly one worker, which holds nothing
\* else until the call returns, and no candidate is received twice.
C9_OneCandidatePerWorker ==
  /\ Cardinality(InProcessRepo) <= PoolSize
  /\ \A id \in Ids : Count(trace[id], "recv") <= 1
  /\ \A id \in InProcessRepo :
       Cardinality({w \in 1..PoolSize :
                      worker[w].pc = "process" /\ worker[w].repository.id = id}) = 1
  /\ \A w \in 1..PoolSize :
       worker[w].pc = "process" => worker[w].repository.id \in InProcessRepo

C9_Witness ==
  /\ Cardinality(InProcessRepo) = PoolSize
  /\ mainpc = "feed_send"

\* CrawlOrg has returned from its last call.
CrawlOrgReturned(p) == p.pc = "org" /\ p.org >= 1

\* C10 as stated: when CrawlOrg returns, processAndGetNextURL has been
\* called on every seed URL generateAPIURLs returned.
C10_EverySeedPaginated ==
  \A i \in 1..MaxPublishers :
    CrawlOrgReturned(pub[i]) => pub[i].seed = pub[i].seeds

\* C10 amended: the seed URLs are tried in order as fallbacks: a seed is
\* paginated only if the pagination of every seed before it ended with an
\* error, and CrawlOrg returns when the pagination of a seed ends with an
\* empty next URL (the seeds after it are never requested) or when the last
\* seed ended with an error.
C10_SeedsAreFallbacks ==
  \A i \in 1..MaxPublishers :
    LET p == pub[i] IN
      /\ \A k \in 1..(Len(p.ended) - 1) : p.ended[k] = "err"
      /\ p.pc = "page" =>
           /\ Len(p.ended) = p.seed - 1
           /\ \A k \in 1..Len(p.ended) : p.ended[k] = "err"
      /\ CrawlOrgReturned(p) =>
           /\ Len(p.ended) = p.seed
           /\ p.seed < p.seeds => p.ended[p.seed] = "last"
           /\ (p.seeds >= 1 /\ p.ended[p.seed] = "err") => p.seed = p.seeds

C10_Witness ==
  \E i \in 1..MaxPublishers :
    /\ CrawlOrgReturned(pub[i])
    /\ pub[i].seeds = 2
    /\ pub[i].ended = <<"err", "last">>

\* C11: an error of processAndGetNextURL ends the pagination of its seed and
\* nothing else: no page is requested of a seed whose pagination returned an
\* error, a publisher goroutine returns only when every organization and
\* every direct repository URL of its publisher has been handled, and a
\* CrawlPublishers call that returned has run every publisher to its end and
\* returns nothing but the result of the finalization.
C11_PageErrorEndsSeedOnly ==
  /\ \A i \in 1..MaxPublishers :
       LET p == pub[i] IN
         /\ p.pc = "page" => Len(p.ended) < p.seed
         /\ p.pc = "done" => /\ p.org = Len(p.pa.Organizations)
                             /\ p.rep = Len(p.pa.Repositories)
  /\ (Returned /\ mode = "publishers") =>
       /\ ret \in {"nil", "Error updating Elastic Alias"}
       /\ \A i \in 1..Len(publishers) : pub[i].pc = "done"

\* A CrawlOrg call whose seeds all failed has returned, its publisher goes on
\* with its direct repository URLs, and another publisher is being crawled.
C11_Witness ==
  \E i, j \in 1..MaxPublishers :
    /\ i # j
    /\ pub[i].pc = "single"
    /\ pub[j].pc = "org"
    /\ CrawlOrgReturned(pub[j])
    /\ pub[j].ended = <<"err", "err">>
    /\ pub[j].pa.Repositories # <<>>

\* C12: for an organization whose listing is a chain of pages without errors
\* CrawlOrg requests every page once, in chain order, up to the empty next
\* URL; and when the run is over (the call returned or no goroutine can take
\* a step) every candidate that is not blacklisted has been received by a
\* pool worker exactly once.
C12_ChainCrawledOnce ==
  /\ \A i \in 1..MaxPublishers :
       (CrawlOrgReturned(pub[i]) /\ pub[i].ended = <<"last">>) =>
         /\ pub[i].reqs # <<>>
         /\ pub[i].reqs = [k \in 1..Len(pub[i].reqs) |-> k]
  /\ (mode = "publishers" /\ (Returned \/ ~ENABLED Next)) =>
       \A id \in Ids : ~Filtered(id) => Count(trace[id], "recv") = 1

\* The administration code without its surrounding white space: from its
\* first to its last character that is not white space.
Core(s) ==
  LET solid == {k \in 1..Len(s) : s[k] # " "} IN
    IF solid = {} THEN <<>>
    ELSE SubSeq(s, CHOOSE k \in solid : \A j \in solid : k <= j,
                   CHOOSE k \in solid : \A j \in solid : k >= j)

\* Two characters that are the same letter.
SameLetter(c, d) == c = d \/ {c, d} \in {{"a", "A"}, {"b", "B"}}

\* Equal after trimming and ignoring letter case.
SameCode(s, t) ==
  /\ Len(Core(s)) = Len(Core(t))
  /\ \A k \in 1..Len(Core(s)) : SameLetter(Core(s)[k], Core(t)[k])

\* C16: validateFile returns nil if and only if the publisher's code and the
\* manifest's code are equal after trimming surrounding white space and
\* ignoring letter case; the error it returns otherwise reports both codes as
\* they were given.
C16_ValidateFileIffSameCode ==
  validation.pc = "returned" =>
    /\ validation.err = Nil <=>
         SameCode(validation.pa.CodiceIPA, validation.parser.CodiceIPA)
    /\ validation.err # Nil =>
         /\ validation.err[4] = validation.parser.CodiceIPA
         /\ validation.err[6] = validation.pa.CodiceIPA

\* "Ab " against " aB" is accepted, "Ab" against "b" is refused.
C16_Witness ==
  /\ validation.pc = "returned"
  /\ validation.pa.CodiceIPA = <<"A", "b", " ">>
  /\ validation.parser.CodiceIPA = <<" ", "a", "b">>
  /\ validation.err = Nil

\* The manifest fetch of the candidate returned, and failed.
FetchFailed(id) ==
  Len(trace[id]) >= 2 /\ trace[id][2] \in {"GetURL:404", "GetURL:error"}

\* The manifest fetch of the candidate returned the manifest.
Fetched(id) == Len(trace[id]) >= 2 /\ trace[id][2] = "GetURL:200"

\* A worker leaves its loop only when the channel it reads is closed, and a
\* worker that holds a candidate is inside ProcessRepo on it.
WorkersGoOn ==
  \A w \in 1..PoolSize :
    /\ worker[w].pc = "done" => reposChanClosed
    /\ worker[w].pc = "process" <=> worker[w].repository # NoRepo
    /\ worker[w].pc = "process" => worker[w].repository.id \in InProcessRepo

\* C13: a candidate whose manifest fetch fails (a status other than 200 or a
\* transport error) is skipped: nothing else is called on it, it leaves no
\* dead-letter entry and no document; the worker goes on with the next
\* candidate.
C13_FailedFetchSkipped ==
  /\ \A id \in Ids : FetchFailed(id) =>
       /\ trace[id] = <<"recv", trace[id][2]>>
       /\ pushed[id].FileRawURL \in badYaml =>
            \E j \in Ids \ {id} :
              Rejected(j) /\ pushed[j].FileRawURL = pushed[id].FileRawURL
       /\ (\E d \in index : d.GitCloneURL = pushed[id].GitCloneURL) =>
            \E j \in Ids \ {id} :
              Published(j) /\ pushed[j].GitCloneURL = pushed[id].GitCloneURL
  /\ WorkersGoOn

\* More candidates were skipped than there are workers: a worker went on
\* after a skip.
C13_Witness ==
  /\ Cardinality({id \in Ids : FetchFailed(id)}) > PoolSize
  /\ badYaml = {}
  /\ index = {}

\* C14: a candidate whose manifest was fetched and fails validation (it does
\* not parse, or its code differs from the publisher's) gets a dead-letter
\* entry under its manifest URL and is neither cloned nor published; the
\* dead-letter log holds nothing else; the worker goes on.
C14_InvalidManifestRejected ==
  /\ \A id \in Ids : Has(trace[id], "validateRemoteFile:error") =>
       /\ trace[id] = <<"recv", "GetURL:200", "validateRemoteFile:error",
                        "logBadYamlToFile">>
       /\ pushed[id].FileRawURL \in badYaml
  /\ badYaml = {pushed[id].FileRawURL : id \in {j \in Ids : Rejected(j)}}
  /\ \A data \in Manifests, pa \in PAs :
       (~data.valid \/ ~SameCode(pa.CodiceIPA, data.CodiceIPA))
         <=> validateRemoteFile(data, "raw", pa) # Nil
  /\ \A w \in 1..PoolSize : worker[w].pc = "done" => reposChanClosed

\* More candidates were rejected than there are workers.
C14_Witness ==
  /\ Cardinality({id \in Ids : Rejected(id)}) > PoolSize
  /\ badYaml = {"raw2"}
  /\ \A w \in 1..PoolSize : worker[w].pc = "done"

\* C15: a candidate of a publisher with UnknownIPA set whose manifest was
\* fetched is not validated: after the fetch come the clone, the activity
\* computation and the publication, and nothing else.
C15_UnknownIPANotValidated ==
  \A id \in Ids :
    (pushed[id].Pa.UnknownIPA /\ Fetched(id)) =>
      /\ Len(trace[id]) = 5
      /\ trace[id][3] \in CloneResults
      /\ trace[id][4] \in ActivityResults
      /\ trace[id][5] = "saveToES"
      /\ \E d \in index : d.GitCloneURL = pushed[id].GitCloneURL

C15_Witness ==
  \E id \in Ids :
    /\ pushed[id].Pa.UnknownIPA
    /\ Published(id)
    /\ pushed[id].Pa.CodiceIPA \notin ManifestCodes

\* The candidate went past fetch and validation.
PassedValidation(id) ==
  \/ Has(trace[id], "validateRemoteFile:nil")
  \/ pushed[id].Pa.UnknownIPA /\ Fetched(id)

\* C17: on a candidate that went past fetch and validation, the clone, the
\* activity computation and the publication are each called exactly once, in
\* this order, whatever the clone and the activity computation return.
C17_CloneActivityPublishAlways ==
  \A id \in Ids : PassedValidation(id) =>
    LET t == trace[id]
        n == Len(t)
    IN /\ n >= 5
       /\ t[n - 2] \in CloneResults
       /\ t[n - 1] \in ActivityResults
       /\ t[n] = "saveToES"
       /\ Cardinality({k \in 1..n : t[k] \in CloneResults}) = 1
       /\ Cardinality({k \in 1..n : t[k] \in ActivityResults}) = 1
       /\ Count(t, "saveToES") = 1

\* The clone and the activity computation both failed, on a validated
\* candidate, and the candidate was published.
C17_Witness ==
  \E id \in Ids :
    /\ Has(trace[id], "validateRemoteFile:nil")
    /\ Has(trace[id], "CloneRepository:error")
    /\ Has(trace[id], "CalculateRepoActivity:error")
    /\ Published(id)

KnownHost(url) == url \in {"org1", "repo1"}

\* The URLs of a publisher.
URLsOf(pa) ==
  {pa.Organizations[k] : k \in 1..Len(pa.Organizations)}
    \cup {pa.Repositories[k] : k \in 1..Len(pa.Repositories)}

\* C19: a URL whose host no configured domain has is not crawled: no
\* publisher goroutine is inside processAndGetNextURL or processSingleRepo
\* for such a URL, every candidate pushed belongs to a publisher one of whose
\* URLs has a known host, and a CrawlRepo that returned the KnownHost error
\* pushed nothing.
C19_UnknownHostNotCrawled ==
  /\ \A i \in 1..MaxPublishers :
       /\ pub[i].pc = "page" => KnownHost(pub[i].pa.Organizations[pub[i].org])
       /\ pub[i].pc = "single" => KnownHost(pub[i].pa.Repositories[pub[i].rep])
  /\ mode = "publishers" =>
       \A id \in Ids : \E url \in URLsOf(pushed[id].Pa) : KnownHost(url)
  /\ ret = "KnownHost error" => pushed = <<>>

\* The candidates the blacklist filter forwarded: they wait in the channel
\* crawl() reads, are in the hand of crawl(), or were received by a worker.
Forwarded ==
  Len(repositories.buf) + (IF repo # NoRepo THEN 1 ELSE 0)
    + Cardinality({id \in Ids : trace[id] # <<>>})

\* C20: in CrawlPublishers no worker is started and no candidate is received
\* or fetched before every publisher goroutine has returned, the intake
\* channel was closed and every candidate pushed was either forwarded or
\* marked for removal.
C20_FilterIsBarrier ==
  (/\ mode = "publishers"
   /\ \/ \E w \in 1..PoolSize : worker[w].pc # "none"
      \/ \E id \in Ids : trace[id] # <<>>)
    => /\ \A i \in 1..Len(publishers) : pub[i].pc = "done"
       /\ intakeCloses = 1
       /\ Forwarded + Len(toBeRemoved) = Len(pushed)

\* A manifest was fetched in a CrawlPublishers run in which candidates were
\* forwarded and candidates were marked for removal.
C20_Witness ==
  /\ mode = "publishers"
  /\ \E id \in Ids : Len(trace[id]) >= 2
  /\ Len(toBeRemoved) >= 2
  /\ Forwarded >= 2

\* The errors with which an entry point returns what crawl() returned.
CrawlReturns == {"nil", "Error updating Elastic Alias"}

\* C21 as stated: after CrawlRepo or CrawlPublishers returns, the
\* repositories channel of the Crawler is closed and empty.
C21_ClosedAfterReturn ==
  Returned => Drained(repositories)

\* C21, amended: after a return from crawl() the repositories channel is
\* closed and empty, and in a later crawl on the Crawler it stays closed and
\* no candidate is pushed; after CrawlRepo returns the error of KnownHost or
\* of processSingleRepo on a Crawler that has not crawled, the channel is open
\* and empty.
C21_ClosedAfterCrawlReturn ==
  /\ (Returned /\ ret \in CrawlReturns) => Drained(repositories)
  /\ (Returned /\ ret \notin CrawlReturns /\ returns = <<>>) =>
       ~repositories.closed /\ repositories.buf = <<>>
  /\ (\E k \in 1..Len(returns) : returns[k] \in CrawlReturns) =>
       /\ repositories.closed
       /\ pushed = <<>>

\* A producer of a second crawl pushed on the channel the first crawl left
\* closed: a send on a closed channel.
C21_Witness ==
  /\ returns # <<>>
  /\ returns[1] \in CrawlReturns
  /\ panicked
  /\ mode = "publishers"
  /\ closerpc = "wait"
  /\ \E i \in 1..MaxPublishers : pub[i].pc \in {"page", "single"}

\* C22: in the first version (CrawlOrgs, WaitingLoop, one wait-group for the
\* ProcessPA goroutines and the CheckAvailability goroutines), the
\* repositories channel is closed only after every ProcessPA goroutine has
\* called Done; no candidate has two CheckAvailability goroutines, and when
\* the crawl has returned or can go no further every candidate pushed has
\* one; elastic.Flush is called only after all these goroutines finished.
C22_SharedWaitGroupOrchestration ==
  /\ repositories.closed =>
       \A i \in 1..Len(publishers) : pub[i].pc = "done"
  /\ \A id \in Ids : Count(trace[id], "CheckAvailability") <= 1
  /\ (Returned \/ ~ENABLED NextCrawlOrgs) =>
       \A id \in Ids : Count(trace[id], "CheckAvailability") = 1
  /\ esCalls # <<>> =>
       /\ \A i \in 1..Len(publishers) : pub[i].pc = "done"
       /\ \A id \in Ids : trace[id] = <<"CheckAvailability", "Done">>

====
